---- MODULE Spec2Model ----
(***************************************************************************)
(* A model of gurt.py: the menu loop (main_loop), the guessing game        *)
(* (guess_number), the system info reporter (show_system_info and          *)
(* run_cmd_output), the surprise opener (open_surprise) and the gradient   *)
(* (gradient_text).                                                        *)
(*                                                                         *)
(* A text is a sequence of one-character strings.  The program counter pc  *)
(* names the call at which the program is blocked or about to execute; one *)
(* action executes that call with one of its possible outcomes (a result,  *)
(* or an exception it raises) and runs the code up to the next such call.  *)
(***************************************************************************)
EXTENDS Integers, Sequences, FiniteSets, TLC

\* ------------------------------------------------------------------ bounds
\* Largest number of integer guesses of one game that the interactive
\* specification explores (the program itself has no limit).
MaxAttempts == 2

\* Longest title given to gradient_text.  For titles of up to 8 characters
\* the double-precision result of int(start + (end - start) * (i / n)) is
\* the exact quotient for all channels in 0..255, which Channel computes.
MaxTitleLen == 3

\* ------------------------------------------------------------------- texts
UpperChars == <<"A","B","C","D","E","F","G","H","I","J","K","L","M",
                "N","O","P","Q","R","S","T","U","V","W","X","Y","Z">>
LowerChars == <<"a","b","c","d","e","f","g","h","i","j","k","l","m",
                "n","o","p","q","r","s","t","u","v","w","x","y","z">>
DigitChars == <<"0","1","2","3","4","5","6","7","8","9">>
Whitespace == {" ", "\t"}

\* str.lower() on one character
LowerChar(c) ==
    IF \E i \in 1..Len(UpperChars) : UpperChars[i] = c
    THEN LowerChars[CHOOSE i \in 1..Len(UpperChars) : UpperChars[i] = c]
    ELSE c

\* str.lower()
Lower(s) == [i \in 1..Len(s) |-> LowerChar(s[i])]

\* str.strip(): drop the leading and the trailing whitespace
Strip(s) ==
    LET nonws == {i \in 1..Len(s) : s[i] \notin Whitespace}
    IN  IF nonws = {} THEN <<>>
        ELSE LET first == CHOOSE i \in nonws : \A j \in nonws : i <= j
                 last  == CHOOSE i \in nonws : \A j \in nonws : j <= i
             IN  SubSeq(s, first, last)

IsDigit(c) == \E i \in 1..Len(DigitChars) : DigitChars[i] = c
DigitValue(c) == (CHOOSE i \in 1..Len(DigitChars) : DigitChars[i] = c) - 1

\* the digits-and-underscores part of an integer literal: it starts and ends
\* with a digit and has no two underscores in a row
IsDigitPart(d) ==
    /\ Len(d) > 0
    /\ \A i \in 1..Len(d) : IsDigit(d[i]) \/ d[i] = "_"
    /\ IsDigit(d[1]) /\ IsDigit(d[Len(d)])
    /\ \A i \in 1..(Len(d) - 1) : ~(d[i] = "_" /\ d[i + 1] = "_")

HasSign(s) == Len(s) > 0 /\ s[1] \in {"+", "-"}
Unsigned(s) == IF HasSign(s) THEN Tail(s) ELSE s

\* int(s) succeeds (it raises ValueError otherwise); int() itself strips
\* surrounding whitespace
IsIntLiteral(s) == IsDigitPart(Unsigned(Strip(s)))

RECURSIVE DigitsValue(_, _)
DigitsValue(d, acc) ==
    IF d = <<>> THEN acc
    ELSE IF Head(d) = "_" THEN DigitsValue(Tail(d), acc)
    ELSE DigitsValue(Tail(d), 10 * acc + DigitValue(Head(d)))

\* the value of int(s) where it succeeds
IntValue(s) ==
    LET t == Strip(s)
        v == DigitsValue(Unsigned(t), 0)
    IN  IF HasSign(t) /\ t[1] = "-" THEN 0 - v ELSE v

\* -------------------------------------------------------------- exceptions
\* isinstance(exc, cls) for the exception classes the program meets
IsSubclass(exc, cls) ==
    \/ cls = "BaseException"
    \/ exc = cls
    \/ cls = "Exception" /\ exc # "KeyboardInterrupt"

\* the class named by each except clause
RunCmdExcept_bare == "BaseException"
RunCmdExcept == "Exception"
ProcUptimeExcept == "Exception"
BrowserExcept_narrow == "PermissionError"
BrowserExcept == "Exception"
WebExcept_narrow == "OSError"
WebExcept == "Exception"
GuessExcept == "ValueError"
MainExcept == "KeyboardInterrupt"

\* --------------------------------------------------------------- constants
LOW == 1
HIGH == 100
QuitTokens == {<<"q">>, <<"q","u","i","t">>, <<"e","x","i","t">>}
ArtAliases == {<<"1">>, <<"a">>, <<"a","r","t">>}
SysAliases == {<<"2">>, <<"s">>, <<"s","y","s">>}
WebAliases == {<<"3">>, <<"w">>, <<"w","e","b">>,
               <<"s","u","r","p","r","i","s","e">>}
GameAliases == {<<"4">>, <<"g">>, <<"g","a","m","e">>}
SURPRISES == <<"https://thisworddoesnotexist.com/",
               "https://web.archive.org/web/20200202020202/https://www.retrojunk.com/",
               "https://patatap.com/",
               "https://shadertoy.com/",
               "https://pointerpointer.com/">>
\* the number of lines of each picture of ARTS once stripped
ARTS == <<5, 3, 5, 6>>

BANNER_TEXT == <<"G", " ", "U", " ", "R", " ", "T">>
\* os.environ.get("BROWSER") when the variable is not set
EnvUnset == "<unset>"

\* ------------------------------------------------------------------- state
VARIABLES
    pc,          \* the call the program is at; "done", "interrupted" and
                 \* "crashed" are the three ways the process ends
    site,        \* the call executed by the last step
    raised,      \* the exception raised during the last step, or "none"
    caught,      \* the functions whose except clause caught it, inner first
    out,         \* the messages printed by the last step
    line,        \* the last line read from standard input
    choice,      \* main_loop: choice
    branch,      \* main_loop: the branch of the if/elif chain last taken
    env_BROWSER, \* the BROWSER environment variable
    stdin,       \* the lines of standard input, when it is scripted
    rd,          \* the number of those lines read so far
    secret, attempts, \* guess_number: its locals
    gstate,      \* guess_number: AwaitingGuess, Won or Aborted
    hints,       \* guess_number: the hints printed so far in this game
    lines,       \* show_system_info: the labels of the lines printed so far
    probe,       \* show_system_info: the outcome of each probe
    url,         \* open_surprise: url
    announced,   \* open_surprise: the URL printed by "Opening surprise:"
    calls,       \* open_surprise: the openers invoked, with their arguments
    fallback,    \* open_surprise: the URL printed as fallback text, or ""
    gtext, gstart, gend, \* gradient_text: its arguments
    gout,        \* gradient_text: out, one coloured character per entry
    gpc          \* gradient_text: "loop", "done", or "off" when not running

ctlVars == <<pc, site, raised, caught, out>>
menuVars == <<choice, branch>>
gameVars == <<secret, attempts, gstate, hints>>
sysVars == <<lines, probe>>
surVars == <<url, announced, calls, fallback>>
gradVars == <<gtext, gstart, gend, gout, gpc>>
vars == <<pc, site, raised, caught, out, line, choice, branch, env_BROWSER,
          stdin, rd, secret, attempts, gstate, hints, lines, probe, url,
          announced, calls, fallback, gtext, gstart, gend, gout, gpc>>

\* ---------------------------------------------------------------- messages
Say(t) == <<t, "", 0, 0>>
SayUrl(t, u) == <<t, u, 0, 0>>
SayWin(sec, att) == <<"Nice!", "", sec, att>>
\* clear(), print_banner() and the menu, printed before "Choose: "
MenuText == <<Say("Menu:")>>
AckPrompt == Say("Press Enter to continue...")

NoProbes == [uname |-> "none", uptime |-> "none", proc |-> "none",
             disk |-> "none"]

\* the locals of the four actions, before the action runs and once the loop
\* has dropped them
NoLocals ==
    /\ secret = 0 /\ attempts = 0 /\ gstate = "NotStarted" /\ hints = <<>>
    /\ lines = <<>> /\ probe = NoProbes
    /\ url = "" /\ announced = "" /\ calls = <<>> /\ fallback = ""
DropLocals ==
    /\ secret' = 0 /\ attempts' = 0 /\ gstate' = "NotStarted" /\ hints' = <<>>
    /\ lines' = <<>> /\ probe' = NoProbes
    /\ url' = "" /\ announced' = "" /\ calls' = <<>> /\ fallback' = ""
GradientOff ==
    /\ gtext = <<>> /\ gstart = <<0, 0, 0>> /\ gend = <<0, 0, 0>>
    /\ gout = <<>> /\ gpc = "off"

\* ------------------------------------------------------------ control flow
Ctl(npc, at, exc, by, msgs) ==
    /\ pc' = npc /\ site' = at /\ raised' = exc /\ caught' = by
    /\ out' = msgs

\* an exception that no handler inside the action caught reaches the try of
\* main_loop; what that try does not catch ends the process with a traceback
Uncaught(exc, at) ==
    IF IsSubclass(exc, MainExcept)
    THEN Ctl("interrupted", at, exc, <<"main_loop">>,
             <<Say("Interrupted. Bye.")>>)
    ELSE Ctl("crashed", at, exc, <<>>, <<Say("Traceback")>>)

\* ------------------------------------------------------------- menu loop
Dispatch_caseSensitive(raw) ==
    LET c == Strip(raw)
    IN  IF c \in ArtAliases THEN "art"
        ELSE IF c \in SysAliases THEN "sys"
        ELSE IF c \in WebAliases THEN "web"
        ELSE IF c \in GameAliases THEN "game"
        ELSE IF c \in QuitTokens THEN "quit"
        ELSE "unknown"
\* the branch of the if/elif chain that a line of menu input takes
Dispatch(raw) ==
    LET c == Lower(Strip(raw))
    IN  IF c \in ArtAliases THEN "art"
        ELSE IF c \in SysAliases THEN "sys"
        ELSE IF c \in WebAliases THEN "web"
        ELSE IF c \in GameAliases THEN "game"
        ELSE IF c \in QuitTokens THEN "quit"
        ELSE "unknown"

\* the first call of each branch
BranchEntry(b) ==
    CASE b = "art" -> "art"
      [] b = "sys" -> "sys_start"
      [] b = "web" -> "sur_start"
      [] b = "game" -> "game_start"
      [] b = "quit" -> "done"
      [] OTHER -> "pause"

BranchText(b) ==
    CASE b = "quit" -> <<Say("Goodbye.")>>
      [] b = "unknown" -> <<Say("Unknown choice.")>>
      [] b = "web" -> <<>>
      [] OTHER -> <<Say("Banner")>>

\* choice = input("\nChoose: ").strip().lower() and the dispatch
Choose(raw) ==
    /\ pc = "menu"
    /\ line' = raw
    /\ choice' = Lower(Strip(raw))
    /\ branch' = Dispatch(raw)
    /\ Ctl(BranchEntry(Dispatch(raw)), "menu", "none", <<>>,
           BranchText(Dispatch(raw)))
    /\ UNCHANGED <<env_BROWSER, gameVars, sysVars, surVars, gradVars>>

\* time.sleep(0.5) after an unknown choice, then the top of the loop
Pause ==
    /\ pc = "pause"
    /\ Ctl("menu", "pause", "none", <<>>, MenuText)
    /\ UNCHANGED <<line, menuVars, env_BROWSER, gameVars, sysVars, surVars,
                   gradVars>>

\* input("Press Enter to continue..."), then the top of the loop
Ack(raw) ==
    /\ pc = "ack"
    /\ line' = raw
    /\ Ctl("menu", "ack", "none", <<>>, MenuText)
    /\ DropLocals
    /\ UNCHANGED <<menuVars, env_BROWSER, gradVars>>

\* input() at the menu or at the acknowledgment prompt meets end of input
InputEOF ==
    /\ pc \in {"menu", "ack"}
    /\ Uncaught("EOFError", pc)
    /\ UNCHANGED <<line, menuVars, env_BROWSER, gameVars, sysVars, surVars,
                   gradVars>>

\* the calls of main_loop and of the actions that no inner try encloses
OpenSites == {"menu", "ack", "pause", "art", "sys_start", "sys_disk",
              "sur_start", "sur_sleep", "game_start"}

\* an interrupt signal arrives at a call that no inner try encloses
Interrupt ==
    /\ pc \in OpenSites
    /\ Uncaught("KeyboardInterrupt", pc)
    /\ UNCHANGED <<line, menuVars, env_BROWSER, gameVars, sysVars, surVars,
                   gradVars>>

\* ------------------------------------------------------------- art picker
show_ascii_art ==
    /\ pc = "art"
    /\ \E i \in 1..Len(ARTS) :
         Ctl("ack", "art", "none", <<>>,
             <<<<"Art", "", i, ARTS[i]>>, AckPrompt>>)
    /\ UNCHANGED <<line, menuVars, env_BROWSER, gameVars, sysVars, surVars,
                   gradVars>>

\* ----------------------------------------------------- system info reporter
\* what subprocess.check_output(cmd) can do: give text, give only blank
\* text, or raise (command not found, non-zero exit status, interrupt)
CmdOutcomes == {"text", "blank", "FileNotFoundError", "CalledProcessError",
                "KeyboardInterrupt"}

\* run_cmd_output: the value returned, or the exception that escapes it
run_cmd_output(o) ==
    IF o = "text" THEN [value |-> "text", exc |-> "none", escapes |-> FALSE]
    ELSE IF o = "blank" THEN [value |-> "", exc |-> "none", escapes |-> FALSE]
    ELSE IF IsSubclass(o, RunCmdExcept)
    THEN [value |-> "", exc |-> o, escapes |-> FALSE]
    ELSE [value |-> "", exc |-> o, escapes |-> TRUE]

CaughtBy(exc, fn) == IF exc = "none" THEN <<>> ELSE <<fn>>

\* the header and the platform and runtime lines
SysStart ==
    /\ pc = "sys_start"
    /\ lines' = <<"Platform", "Python">>
    /\ Ctl("sys_uname", "sys_start", "none", <<>>,
           <<Say("System Info"), Say("Platform:"), Say("Python:")>>)
    /\ UNCHANGED <<line, menuVars, env_BROWSER, gameVars, probe, surVars,
                   gradVars>>

\* uname = run_cmd_output(["uname", "-a"]) and its line
SysUname ==
    /\ pc = "sys_uname"
    /\ \E o \in CmdOutcomes :
         LET r == run_cmd_output(o)
         IN  /\ probe' = [probe EXCEPT !.uname = o]
             /\ IF r.escapes
                THEN Uncaught(r.exc, "sys_uname") /\ UNCHANGED lines
                ELSE IF r.value # ""
                THEN /\ lines' = Append(lines, "Uname")
                     /\ Ctl("sys_uptime", "sys_uname", r.exc,
                            CaughtBy(r.exc, "run_cmd_output"),
                            <<Say("Uname:")>>)
                ELSE /\ UNCHANGED lines
                     /\ Ctl("sys_uptime", "sys_uname", r.exc,
                            CaughtBy(r.exc, "run_cmd_output"), <<>>)
    /\ UNCHANGED <<line, menuVars, env_BROWSER, gameVars, surVars, gradVars>>

\* uptime = run_cmd_output(["uptime", "-p"]) and its line
SysUptime ==
    /\ pc = "sys_uptime"
    /\ \E o \in CmdOutcomes :
         LET r == run_cmd_output(o)
         IN  /\ probe' = [probe EXCEPT !.uptime = o]
             /\ IF r.escapes
                THEN Uncaught(r.exc, "sys_uptime") /\ UNCHANGED lines
                ELSE IF r.value # ""
                THEN /\ lines' = Append(lines, "Uptime")
                     /\ Ctl("sys_disk", "sys_uptime", r.exc,
                            CaughtBy(r.exc, "run_cmd_output"),
                            <<Say("Uptime:")>>)
                ELSE /\ UNCHANGED lines
                     /\ Ctl("sys_proc", "sys_uptime", r.exc,
                            CaughtBy(r.exc, "run_cmd_output"), <<>>)
    /\ UNCHANGED <<line, menuVars, env_BROWSER, gameVars, surVars, gradVars>>

\* what reading and parsing /proc/uptime can do: succeed, or raise (no such
\* file, an empty first line, text that is not a number, interrupt)
ProcOutcomes == {"ok", "FileNotFoundError", "IndexError", "ValueError",
                 "KeyboardInterrupt"}

\* the fallback: read /proc/uptime inside try ... except Exception: pass
SysProc ==
    /\ pc = "sys_proc"
    /\ \E o \in ProcOutcomes :
         /\ probe' = [probe EXCEPT !.proc = o]
         /\ IF o = "ok"
            THEN /\ lines' = Append(lines, "Uptime")
                 /\ Ctl("sys_disk", "sys_proc", "none", <<>>,
                        <<Say("Uptime:")>>)
            ELSE IF IsSubclass(o, ProcUptimeExcept)
            THEN /\ UNCHANGED lines
                 /\ Ctl("sys_disk", "sys_proc", o, <<"show_system_info">>,
                        <<>>)
            ELSE Uncaught(o, "sys_proc") /\ UNCHANGED lines
    /\ UNCHANGED <<line, menuVars, env_BROWSER, gameVars, surVars, gradVars>>

\* what shutil.disk_usage(".") can do: succeed, or raise OSError (statvfs
\* fails: an I/O error, a stale network mount, a drive that went away)
DiskOutcomes == {"ok", "OSError"}

\* total, used, free = shutil.disk_usage("."), its line and the blank line;
\* no try encloses the call
SysDisk ==
    /\ pc = "sys_disk"
    /\ \E o \in DiskOutcomes :
         /\ probe' = [probe EXCEPT !.disk = o]
         /\ IF o = "ok"
            THEN /\ lines' = Append(lines, "Disk")
                 /\ Ctl("ack", "sys_disk", "none", <<>>,
                        <<Say("Disk (cwd):"), Say(""), AckPrompt>>)
            ELSE Uncaught(o, "sys_disk") /\ UNCHANGED lines
    /\ UNCHANGED <<line, menuVars, env_BROWSER, gameVars, surVars, gradVars>>

\* --------------------------------------------------------- surprise opener
\* browser_cmd is truthy
Truthy(b) == b # EnvUnset /\ b # ""

\* url = random.choice(SURPRISES), browser_cmd and the announcement
SurStart ==
    /\ pc = "sur_start"
    /\ \E i \in 1..Len(SURPRISES) :
         /\ url' = SURPRISES[i]
         /\ announced' = SURPRISES[i]
         /\ Ctl("sur_sleep", "sur_start", "none", <<>>,
                <<SayUrl("Opening surprise:", SURPRISES[i])>>)
    /\ calls' = <<>> /\ fallback' = ""
    /\ UNCHANGED <<line, menuVars, env_BROWSER, gameVars, sysVars, gradVars>>

\* time.sleep(0.3) and the test of browser_cmd
SurSleep ==
    /\ pc = "sur_sleep"
    /\ Ctl(IF Truthy(env_BROWSER) THEN "sur_browser" ELSE "sur_web",
           "sur_sleep", "none", <<>>, <<>>)
    /\ UNCHANGED <<line, menuVars, env_BROWSER, gameVars, sysVars, surVars,
                   gradVars>>

\* what subprocess.run([browser_cmd, url], check=False) can do: the command
\* runs and exits with status zero or non-zero, or the call raises (command
\* not found, interrupt)
BrowserOutcomes == {"exit 0", "exit 1", "FileNotFoundError",
                    "KeyboardInterrupt"}

\* the preferred opener, inside try ... except Exception: pass
SurBrowser ==
    /\ pc = "sur_browser"
    /\ \E o \in BrowserOutcomes :
         /\ calls' = Append(calls, [via |-> "BROWSER",
                                    argv |-> <<env_BROWSER, url>>,
                                    outcome |-> o])
         /\ IF o \in {"exit 0", "exit 1"}
            THEN Ctl("ack", "sur_browser", "none", <<>>, <<AckPrompt>>)
            ELSE IF IsSubclass(o, BrowserExcept)
            THEN Ctl("sur_web", "sur_browser", o, <<"open_surprise">>, <<>>)
            ELSE Uncaught(o, "sur_browser")
    /\ UNCHANGED <<line, menuVars, env_BROWSER, gameVars, sysVars, url,
                   announced, fallback, gradVars>>

\* what webbrowser.open(url) can do: return True or False, or raise
WebOutcomes == {"True", "False", "webbrowser.Error", "KeyboardInterrupt"}

\* the default mechanism, inside try ... except Exception, then print()
SurWeb ==
    /\ pc = "sur_web"
    /\ \E o \in WebOutcomes :
         /\ calls' = Append(calls, [via |-> "webbrowser",
                                    argv |-> <<url>>,
                                    outcome |-> o])
         /\ IF o \in {"True", "False"}
            THEN /\ Ctl("ack", "sur_web", "none", <<>>,
                        <<Say(""), AckPrompt>>)
                 /\ UNCHANGED fallback
            ELSE IF IsSubclass(o, WebExcept)
            THEN /\ fallback' = url
                 /\ Ctl("ack", "sur_web", o, <<"open_surprise">>,
                        <<SayUrl("Couldn't open browser. Try visiting:", url),
                          Say(""), AckPrompt>>)
            ELSE Uncaught(o, "sur_web") /\ UNCHANGED fallback
    /\ UNCHANGED <<line, menuVars, env_BROWSER, gameVars, sysVars, url,
                   announced, gradVars>>

\* ----------------------------------------------------------- guessing game
Retry == Say("Type a number or 'q' to quit.")

guess_body_swapped(sec, att, s) ==
    IF ~IsIntLiteral(s)
    THEN [attempts |-> att, exc |-> "ValueError", result |-> "none"]
    ELSE [attempts |-> att + 1, exc |-> "none",
          result |-> IF IntValue(s) < sec THEN "Lower."
                     ELSE IF IntValue(s) > sec THEN "Higher."
                     ELSE "Nice!"]
guess_body_le(sec, att, s) ==
    IF ~IsIntLiteral(s)
    THEN [attempts |-> att, exc |-> "ValueError", result |-> "none"]
    ELSE [attempts |-> att + 1, exc |-> "none",
          result |-> IF IntValue(s) <= sec THEN "Higher."
                     ELSE IF IntValue(s) > sec THEN "Lower."
                     ELSE "Nice!"]
guess_body_countsFirst(sec, att, s) ==
    IF ~IsIntLiteral(s)
    THEN [attempts |-> att + 1, exc |-> "ValueError", result |-> "none"]
    ELSE [attempts |-> att + 1, exc |-> "none",
          result |-> IF IntValue(s) < sec THEN "Higher."
                     ELSE IF IntValue(s) > sec THEN "Lower."
                     ELSE "Nice!"]
\* the body of the try for a line that is no quit token: guess = int(s),
\* which raises ValueError before attempts is touched, then attempts += 1
\* and the comparison
guess_body(sec, att, s) ==
    IF ~IsIntLiteral(s)
    THEN [attempts |-> att, exc |-> "ValueError", result |-> "none"]
    ELSE [attempts |-> att + 1, exc |-> "none",
          result |-> IF IntValue(s) < sec THEN "Higher."
                     ELSE IF IntValue(s) > sec THEN "Lower."
                     ELSE "Nice!"]

\* the title, low, high, secret = random.randint(low, high), attempts = 0
GameStart ==
    /\ pc = "game_start"
    /\ \E n \in LOW..HIGH : secret' = n
    /\ attempts' = 0
    /\ gstate' = "AwaitingGuess"
    /\ hints' = <<>>
    /\ Ctl("game", "game_start", "none", <<>>,
           <<Say("Guess the Number"), <<"I'm thinking of", "", LOW, HIGH>>>>)
    /\ UNCHANGED <<line, menuVars, env_BROWSER, sysVars, surVars, gradVars>>

\* one pass of the while loop that reads the line raw
Guess(raw) ==
    /\ pc = "game"
    /\ line' = raw
    /\ LET s == Strip(raw)
           r == guess_body(secret, attempts, s)
       IN  IF Lower(s) \in QuitTokens
           THEN /\ gstate' = "Aborted"
                /\ Ctl("ack", "game", "none", <<>>,
                       <<Say("Aborted."), AckPrompt>>)
                /\ UNCHANGED <<secret, attempts, hints>>
           ELSE /\ attempts' = r.attempts
                /\ UNCHANGED secret
                /\ IF r.exc # "none"
                   THEN /\ UNCHANGED <<gstate, hints>>
                        /\ IF IsSubclass(r.exc, GuessExcept)
                           THEN Ctl("game", "game", r.exc,
                                    <<"guess_number">>, <<Retry>>)
                           ELSE Uncaught(r.exc, "game")
                   ELSE IF r.result = "Nice!"
                   THEN /\ gstate' = "Won"
                        /\ UNCHANGED hints
                        /\ Ctl("ack", "game", "none", <<>>,
                               <<SayWin(secret, r.attempts), AckPrompt>>)
                   ELSE /\ UNCHANGED gstate
                        /\ hints' = Append(hints, r.result)
                        /\ Ctl("game", "game", "none", <<>>,
                               <<Say(r.result)>>)
    /\ UNCHANGED <<menuVars, env_BROWSER, sysVars, surVars, gradVars>>

\* input("> ") raises instead of returning a line
GuessFault(exc) ==
    /\ pc = "game"
    /\ IF IsSubclass(exc, GuessExcept)
       THEN Ctl("game", "game", exc, <<"guess_number">>, <<Retry>>)
       ELSE Uncaught(exc, "game")
    /\ UNCHANGED <<line, menuVars, env_BROWSER, gameVars, sysVars, surVars,
                   gradVars>>

\* ---------------------------------------------------------------- gradient
Max(a, b) == IF a >= b THEN a ELSE b

GradN_len(text) == Max(1, Len(text))
\* n = max(1, len(text) - 1)
GradN(text) == Max(1, Len(text) - 1)

\* int(s + (e - s) * (i / n)) for 0 <= i <= n and channels in 0..255
Channel(s, e, i, n) == (s * n + (e - s) * i) \div n

\* the colour computed for the character of index i (from 0)
ColourAt(text, start, end, i) ==
    <<Channel(start[1], end[1], i, GradN(text)),
      Channel(start[2], end[2], i, GradN(text)),
      Channel(start[3], end[3], i, GradN(text))>>

\* one pass of the for loop: out.append(fg_rgb(r, g, b) + ch)
GradientChar ==
    /\ gpc = "loop"
    /\ Len(gout) < Len(gtext)
    /\ gout' = Append(gout, [rgb |-> ColourAt(gtext, gstart, gend, Len(gout)),
                             ch |-> gtext[Len(gout) + 1]])
    /\ UNCHANGED <<gtext, gstart, gend, gpc>>
    /\ UNCHANGED <<ctlVars, line, menuVars, env_BROWSER, stdin, rd, gameVars,
                   sysVars, surVars>>

\* out.append(RESET) and the return
GradientReturn ==
    /\ gpc = "loop"
    /\ Len(gout) = Len(gtext)
    /\ gpc' = "done"
    /\ UNCHANGED <<gtext, gstart, gend, gout>>
    /\ UNCHANGED <<ctlVars, line, menuVars, env_BROWSER, stdin, rd, gameVars,
                   sysVars, surVars>>

\* ------------------------------------------------- the interactive program
\* the lines typed at the menu
MenuInputs ==
    ArtAliases \cup SysAliases \cup WebAliases \cup GameAliases
    \cup QuitTokens
    \cup {<<" ", " ", "Q", " ", " ">>, <<"E","x","i","T">>,
          <<"\t","A","r","t">>, <<"S","Y","S"," ">>, <<" ","W","e","b">>,
          <<"G">>, <<" ","g","a","M","e"," ">>,
          <<>>, <<"5">>, <<"x">>, <<"q"," ","q">>, <<"1","2">>}

\* the lines typed at the prompt of the game
GuessInputs ==
    {<<"2","5">>, <<"5","0">>, <<"7","5">>, <<"5","_","0">>,
     <<" ","5","1"," ">>, <<"-","3">>,
     <<"a","b","c">>, <<>>, <<"5","0",".","0">>,
     <<"q">>, <<" ","E","x","i","t"," ">>}

\* the lines typed at the acknowledgment prompt
AckInputs == {<<>>, <<"q">>}

Init ==
    /\ pc = "menu" /\ site = "start" /\ raised = "none" /\ caught = <<>>
    /\ out = MenuText
    /\ line = <<>> /\ choice = <<>> /\ branch = "none"
    /\ env_BROWSER \in {EnvUnset, "", "firefox"}
    /\ stdin = <<>> /\ rd = 0
    /\ NoLocals
    /\ GradientOff

Next ==
    \/ \E raw \in MenuInputs : Choose(raw) /\ UNCHANGED <<stdin, rd>>
    \/ Pause /\ UNCHANGED <<stdin, rd>>
    \/ \E raw \in AckInputs : Ack(raw) /\ UNCHANGED <<stdin, rd>>
    \/ InputEOF /\ UNCHANGED <<stdin, rd>>
    \/ Interrupt /\ UNCHANGED <<stdin, rd>>
    \/ show_ascii_art /\ UNCHANGED <<stdin, rd>>
    \/ SysStart /\ UNCHANGED <<stdin, rd>>
    \/ SysUname /\ UNCHANGED <<stdin, rd>>
    \/ SysUptime /\ UNCHANGED <<stdin, rd>>
    \/ SysProc /\ UNCHANGED <<stdin, rd>>
    \/ SysDisk /\ UNCHANGED <<stdin, rd>>
    \/ SurStart /\ UNCHANGED <<stdin, rd>>
    \/ SurSleep /\ UNCHANGED <<stdin, rd>>
    \/ SurBrowser /\ UNCHANGED <<stdin, rd>>
    \/ SurWeb /\ UNCHANGED <<stdin, rd>>
    \/ GameStart /\ UNCHANGED <<stdin, rd>>
    \/ \E raw \in GuessInputs :
         /\ IsIntLiteral(raw) => attempts < MaxAttempts
         /\ Guess(raw) /\ UNCHANGED <<stdin, rd>>
    \/ \E exc \in {"EOFError", "KeyboardInterrupt"} :
         GuessFault(exc) /\ UNCHANGED <<stdin, rd>>

Spec == Init /\ [][Next]_vars

\* ---------------------------------------- the program on a scripted input
\* standard input is a file: each input() takes its next line, and raises
\* EOFError once the lines are used up
GuessScript ==
    <<<<"4">>, <<"2","5">>, <<"7","5">>, <<"6","0">>, <<"5","5">>,
      <<"5","1">>, <<"5","0">>, <<>>, <<"q">>>>
Scripts ==
    {GuessScript,
     <<<<"g">>, <<"q">>>>,
     <<<<" ","G","a","m","e">>, <<"a","b","c">>, <<"5","0">>,
       <<"Q">>, <<>>, <<" "," ","Q"," "," ">>>>,
     <<<<"x">>, <<"g","a","m","e">>, <<"5","0">>, <<"a","b","c">>>>}

HasLine == rd < Len(stdin)
NextLine == stdin[rd + 1]

InitScript ==
    /\ pc = "menu" /\ site = "start" /\ raised = "none" /\ caught = <<>>
    /\ out = MenuText
    /\ line = <<>> /\ choice = <<>> /\ branch = "none"
    /\ env_BROWSER = EnvUnset
    /\ stdin \in Scripts /\ rd = 0
    /\ NoLocals
    /\ GradientOff

NextScript ==
    \/ HasLine /\ Choose(NextLine) /\ rd' = rd + 1 /\ UNCHANGED stdin
    \/ Pause /\ UNCHANGED <<stdin, rd>>
    \/ HasLine /\ Ack(NextLine) /\ rd' = rd + 1 /\ UNCHANGED stdin
    \/ ~HasLine /\ InputEOF /\ UNCHANGED <<stdin, rd>>
    \/ GameStart /\ UNCHANGED <<stdin, rd>>
    \/ HasLine /\ Guess(NextLine) /\ rd' = rd + 1 /\ UNCHANGED stdin
    \/ ~HasLine /\ GuessFault("EOFError") /\ UNCHANGED <<stdin, rd>>

SpecScript == InitScript /\ [][NextScript]_vars

\* ------------------------------------------------- gradient_text by itself
ChannelValues == {0, 100, 255}
Colours == {<<r, g, b>> : r \in ChannelValues, g \in {0, 200}, b \in {0, 255}}
Titles == {SubSeq(BANNER_TEXT, 1, k) : k \in 0..MaxTitleLen}

InitGradient ==
    /\ pc = "menu" /\ site = "start" /\ raised = "none" /\ caught = <<>>
    /\ out = MenuText
    /\ line = <<>> /\ choice = <<>> /\ branch = "none"
    /\ env_BROWSER = EnvUnset
    /\ stdin = <<>> /\ rd = 0
    /\ NoLocals
    /\ gtext \in Titles /\ gstart \in Colours /\ gend \in Colours
    /\ gout = <<>> /\ gpc = "loop"

NextGradient == GradientChar \/ GradientReturn

SpecGradient == InitGradient /\ [][NextGradient]_vars

\* ========================================================== properties
\* What int() makes of each line of GuessInputs and of GuessScript, and the
\* lines among them that are quit tokens, as Python evaluates them.
IntOracle ==
    {<<<<"2","5">>, 25>>, <<<<"5","0">>, 50>>, <<<<"7","5">>, 75>>,
     <<<<"5","_","0">>, 50>>, <<<<" ","5","1"," ">>, 51>>,
     <<<<"-","3">>, 0 - 3>>, <<<<"6","0">>, 60>>, <<<<"5","5">>, 55>>,
     <<<<"5","1">>, 51>>}
QuitOracle == {<<"q">>, <<" ","E","x","i","t"," ">>, <<"Q">>}
ReadsInt(l) == \E p \in IntOracle : p[1] = l
\* the last step read a line at the prompt of the game
LineReadInGame == pc = "game" /\ site' = "game"
                  /\ raised' \in {"none", "ValueError"}

\* C1 as stated: with secret 50 the script 25, 75, 60, 55, 51, 50 gets the
\* hints Higher, Lower, Lower, Lower, Higher and then wins with attempts 6.
C1_AsStated ==
    (stdin = GuessScript /\ secret = 50 /\ rd = 7) =>
        /\ gstate = "Won"
        /\ hints = <<"Higher.", "Lower.", "Lower.", "Lower.", "Higher.">>
        /\ attempts = 6
        /\ out[1] = SayWin(50, 6)

\* C1 amended: with secret 50 the script 25, 75, 60, 55, 51, 50 gets the
\* hints Higher, Lower, Lower, Lower, Lower for its first five lines, the
\* game staying in AwaitingGuess, and the sixth line ends the game in Won
\* with the message reporting secret 50 and attempts 6.
C1_ScriptedGame ==
    LET expected == <<"Higher.", "Lower.", "Lower.", "Lower.", "Lower.">>
    IN  (stdin = GuessScript /\ secret = 50 /\ rd \in 2..7) =>
            IF rd < 7
            THEN /\ gstate = "AwaitingGuess"
                 /\ hints = SubSeq(expected, 1, rd - 1)
                 /\ attempts = rd - 1
            ELSE /\ gstate = "Won"
                 /\ hints = expected
                 /\ attempts = 6
                 /\ out[1] = SayWin(50, 6)
C1_Witness ==
    /\ stdin = GuessScript /\ secret = 50 /\ rd = 7
    /\ gstate = "Won" /\ attempts = 6 /\ Len(hints) = 5

\* C2: an integer guess below the secret prints the higher hint and one
\* above it the lower hint, the game staying in AwaitingGuess; a guess
\* equal to the secret moves the game to Won and ends its loop; the game
\* leaves AwaitingGuess only to Won on guess = secret or to Aborted on a
\* quit token, whatever the number of attempts.
C2_Step ==
    /\ LineReadInGame =>
         \A p \in IntOracle : p[1] = line' =>
            /\ p[2] < secret =>
                 /\ out' = <<Say("Higher.")>>
                 /\ gstate' = "AwaitingGuess" /\ pc' = "game"
            /\ p[2] > secret =>
                 /\ out' = <<Say("Lower.")>>
                 /\ gstate' = "AwaitingGuess" /\ pc' = "game"
            /\ p[2] = secret => gstate' = "Won" /\ pc' = "ack"
    /\ (gstate = "AwaitingGuess" /\ gstate' # "AwaitingGuess") =>
         /\ LineReadInGame
         /\ \/ gstate' = "Won" /\ <<line', secret>> \in IntOracle
            \/ gstate' = "Aborted" /\ line' \in QuitOracle
C2_GuessTransitions == [][C2_Step]_vars
C2_Witness ==
    /\ gstate = "Won" /\ attempts = 2 /\ Len(hints) = 1
    /\ line = <<"5","_","0">>

\* C3: attempts starts at 0, grows by exactly one with each line read that
\* is an integer, stays as it is on a line that is not (which only prints
\* the retry prompt and leaves the game in AwaitingGuess), stays as it is on
\* a quit token (which ends the game in Aborted), and never decreases
\* during a game.
C3_Step ==
    /\ (pc = "game_start" /\ pc' = "game") => attempts' = 0
    /\ pc = "game" => attempts' >= attempts
    /\ LineReadInGame =>
         IF ReadsInt(line')
         THEN attempts' = attempts + 1
         ELSE /\ attempts' = attempts
              /\ IF line' \in QuitOracle
                 THEN gstate' = "Aborted" /\ pc' = "ack"
                 ELSE /\ gstate' = gstate /\ pc' = "game"
                      /\ out' = <<Retry>> /\ hints' = hints
C3_AttemptsCountIntegerReads == [][C3_Step]_vars
C3_Witness ==
    /\ pc = "game" /\ attempts = 1 /\ line = <<"a","b","c">>
    /\ out = <<Retry>> /\ raised = "ValueError"

OwedLines(pr) ==
    <<"Platform", "Python">>
    \o (IF pr.uname = "text" THEN <<"Uname">> ELSE <<>>)
    \o (IF pr.uptime = "text" \/ pr.proc = "ok" THEN <<"Uptime">> ELSE <<>>)
    \o (IF pr.disk = "ok" THEN <<"Disk">> ELSE <<>>)
SysProbeSites == {"sys_uname", "sys_uptime", "sys_proc", "sys_disk"}

\* C5: every probe of show_system_info is isolated: whatever probes fail,
\* exactly their lines are missing, the other probes run and print, and no
\* exception leaves show_system_info.
C5_ProbesIsolated ==
    (site \in SysProbeSites /\ raised # "KeyboardInterrupt") =>
        /\ pc # "crashed"
        /\ lines = OwedLines(probe)

\* C6 as stated: the preferred opener is invoked with the URL as its sole
\* argument and, whenever it is missing or fails, the default mechanism is
\* tried next.
C6_AsStated ==
    (site = "sur_browser" /\ raised # "KeyboardInterrupt") =>
        /\ calls[1].via = "BROWSER"
        /\ calls[1].argv = <<env_BROWSER, announced>>
        /\ calls[1].outcome \in {"exit 1", "FileNotFoundError"} =>
             pc = "sur_web"

\* C6 amended: the preferred opener is invoked with the URL as its sole
\* argument; when launching it raises, the default mechanism is invoked
\* next with the same URL and nothing propagates; when it runs,
\* open_surprise returns whatever its exit status, the default mechanism
\* not being tried.
C6_OpenerCascade ==
    /\ (site = "sur_sleep" /\ raised = "none" /\ Truthy(env_BROWSER)) =>
          pc = "sur_browser"
    /\ (site = "sur_browser" /\ raised # "KeyboardInterrupt") =>
          /\ Len(calls) = 1
          /\ calls[1].via = "BROWSER"
          /\ calls[1].argv = <<env_BROWSER, announced>>
          /\ calls[1].outcome = "FileNotFoundError" =>
               pc = "sur_web" /\ caught = <<"open_surprise">>
          /\ calls[1].outcome \in {"exit 0", "exit 1"} => pc = "ack"
    /\ (site = "sur_web" /\ Truthy(env_BROWSER)) =>
          /\ Len(calls) = 2
          /\ calls[1].outcome = "FileNotFoundError"
          /\ calls[2].via = "webbrowser"
          /\ calls[2].argv = <<announced>>
C6_Witness ==
    /\ site = "sur_web" /\ Truthy(env_BROWSER) /\ pc = "ack"
    /\ Len(calls) = 2 /\ calls[1].outcome = "FileNotFoundError"

\* C7: with no preferred opener the default mechanism is invoked exactly
\* once, with the URL that was chosen and announced; if it raises, that URL
\* is printed as fallback text; open_surprise returns either way.
C7_DefaultOpener ==
    /\ (site = "sur_sleep" /\ raised = "none" /\ ~Truthy(env_BROWSER)) =>
          pc = "sur_web" /\ calls = <<>>
    /\ (site = "sur_web" /\ ~Truthy(env_BROWSER)
          /\ raised # "KeyboardInterrupt") =>
          /\ Len(calls) = 1
          /\ calls[1].via = "webbrowser"
          /\ calls[1].argv = <<announced>>
          /\ \E i \in 1..Len(SURPRISES) : announced = SURPRISES[i]
          /\ pc = "ack"
          /\ IF calls[1].outcome = "webbrowser.Error"
             THEN /\ fallback = announced
                  /\ out[1] = SayUrl("Couldn't open browser. Try visiting:",
                                     announced)
             ELSE fallback = ""
C7_Witness ==
    /\ site = "sur_web" /\ ~Truthy(env_BROWSER) /\ pc = "ack"
    /\ calls[1].outcome = "webbrowser.Error" /\ fallback = announced

\* two characters that differ at most by letter case
SameLetter(a, b) ==
    \/ a = b
    \/ \E i \in 1..Len(UpperChars) : {a, b} = {UpperChars[i], LowerChars[i]}
\* raw is the alias with letters in any case and blanks around it
VariantOf(raw, alias) ==
    \E l \in 0..Len(raw) :
        /\ l + Len(alias) <= Len(raw)
        /\ \A i \in 1..l : raw[i] \in {" ", "\t"}
        /\ \A i \in 1..Len(alias) : SameLetter(raw[l + i], alias[i])
        /\ \A i \in (l + Len(alias) + 1)..Len(raw) : raw[i] \in {" ", "\t"}
AllAliases == ArtAliases \cup SysAliases \cup WebAliases \cup GameAliases
              \cup QuitTokens
AliasBranch(a) ==
    IF a \in ArtAliases THEN "art"
    ELSE IF a \in SysAliases THEN "sys"
    ELSE IF a \in WebAliases THEN "web"
    ELSE IF a \in GameAliases THEN "game"
    ELSE "quit"

\* C8: a menu line that differs from an alias only by letter case or by
\* surrounding blanks takes the branch of that alias; "  Q  " prints the
\* farewell and ends the loop.
C8_DispatchIgnoresCaseAndBlanks ==
    (site = "menu" /\ raised = "none") =>
        /\ \A a \in AllAliases : VariantOf(line, a) =>
              /\ branch = AliasBranch(a)
              /\ pc = BranchEntry(AliasBranch(a))
        /\ line = <<" ", " ", "Q", " ", " ">> =>
              pc = "done" /\ out = <<Say("Goodbye.")>>
C8_Witness ==
    /\ site = "menu" /\ line = <<" ", " ", "Q", " ", " ">>
    /\ pc = "done" /\ out = <<Say("Goodbye.")>>

\* C9 as stated: for every title the first character has the start colour
\* and the last character has the end colour.
C9_AsStated ==
    (gpc = "done" /\ Len(gtext) >= 1) =>
        /\ gout[1].rgb = gstart
        /\ gout[Len(gout)].rgb = gend

\* C9 amended: every character of the title gets a colour, the first one
\* the start colour and, in a title of two characters or more, the last one
\* the end colour; the character of a one-character title has the start
\* colour.
C9_GradientEndpoints ==
    (gpc = "done" /\ Len(gtext) >= 1) =>
        /\ Len(gout) = Len(gtext)
        /\ gout[1].rgb = gstart
        /\ Len(gtext) >= 2 => gout[Len(gout)].rgb = gend
C9_Witness ==
    /\ gpc = "done" /\ Len(gtext) = 3 /\ gstart = <<255, 200, 0>>
    /\ gend = <<0, 0, 255>> /\ gout[3].rgb = gend /\ gout[2].rgb = <<127, 100, 127>>

Recognized == {"art", "sys", "web", "game"}
Ended == {"done", "interrupted", "crashed"}

\* C10: the loop returns to the menu after a recognized action only through
\* one acknowledgment read, after an unknown choice through the message and
\* the pause with no acknowledgment read, and it ends only on a quit alias
\* or on an interrupt.
C10_Step ==
    /\ (pc # "menu" /\ pc' = "menu") =>
          \/ pc = "ack" /\ branch \in Recognized
          \/ pc = "pause" /\ branch = "unknown"
    /\ (pc # "ack" /\ pc' = "ack") => branch \in Recognized
    /\ (pc = "menu" /\ site' = "menu" /\ raised' = "none"
          /\ branch' = "unknown") =>
          pc' = "pause" /\ out' = <<Say("Unknown choice.")>>
    /\ (pc \notin Ended /\ pc' \in Ended) =>
          \/ pc' = "done" /\ pc = "menu" /\ branch' = "quit"
          \/ pc' = "interrupted" /\ raised' = "KeyboardInterrupt"
C10_LoopShape == [][C10_Step]_vars

====
